---- MODULE Spec2Model ----
(***************************************************************************)
(* Lobby / contribution-admission coordinator of the KZG ceremony          *)
(* sequencer: src/api/v1/lobby.rs (try_contribute and the deadline task    *)
(* remove_participant_on_deadline) and src/api/v1/info.rs (status).        *)
(*                                                                         *)
(* The shared state is the RwLock-protected application state (lobby,      *)
(* participant, num_contributions).  Every await point of the two async    *)
(* functions is a step boundary of the model; the code between two await   *)
(* points runs as one step.                                                *)
(***************************************************************************)
EXTENDS Integers, FiniteSets, Sequences, TLC

\* ------------------------------------------------------------------ bounds
NumSessions == 2      \* session ids that the identity layer can issue
MaxTicks == 2         \* clock advances that the model follows
MaxFrequency == 2     \* check-in frequency of Spec; tolerances below it are drawn

\* ------------------------------------------------------- program constants
\* constants::COMPUTE_DEADLINE (seconds a participant may hold the slot),
\* scaled to the model's clock.
COMPUTE_DEADLINE == 1

\* The acceptance scenario's configuration and clock step
\* (tokio::time::advance(Duration::from_secs(5)) in the test).
ScenarioFrequency == 20
ScenarioTolerance == 10
ScenarioAdvance == 5

Sessions == 1..NumSessions

\* Option::None of `participant`
None == <<>>

\* token.unique_identifier(): a participant identity distinct from the
\* session id; one participant per session.
unique_identifier(s) == 100 + s

Uids == {unique_identifier(s) : s \in Sessions}

VARIABLES
    lobby,              \* app_state.lobby : SessionId -> SessionInfo
    participant,        \* app_state.participant : Option<(SessionId, uid)>
    num_contributions,  \* app_state.num_contributions
    write_lock,         \* 0, or the session whose try_contribute holds store.write()
    call,               \* per session: the in-flight try_contribute (pc, uid)
    guard,              \* per session: the spawned remove_participant_on_deadline task
    now,                \* tokio Instant::now()
    advance,            \* granularity of the clock
    frequency,          \* LOBBY_CHECKIN_FREQUENCY_SEC
    tolerance,          \* LOBBY_CHECKIN_TOLERANCE_SEC
    issued,             \* session ids handed out so far (SessionId::new())
    insert_calls,       \* storage.insert_contributor calls, per uid
    expire_calls,       \* storage.expire_contribution calls, per uid
    last_call,          \* what the most recent try_contribute saw and answered
    completed,          \* sessions whose contribution the completion path accepted
    evictions,          \* <<guard's session, occupant it removed>> per guard clear
    transcript,         \* the transcript's current contribution (get_contribution)
    storage_faulty,     \* whether calls of the persistence layer can fail
    status_pc,          \* the in-flight status request: "idle" or "read"
    last_status         \* the most recent StatusResponse

vars == <<lobby, participant, num_contributions, write_lock, call, guard, now,
          advance, frequency, tolerance, issued, insert_calls, expire_calls,
          last_call, completed, evictions, transcript, storage_faulty,
          status_pc, last_status>>

Horizon == MaxTicks * advance

\* ------------------------------------------------------------ rate limiter
\* lobby.rs 82-83
min_diff == frequency - tolerance

rate_limited_inclusive(info, t) ==
    ~info.is_first_ping_attempt /\ t <= info.last_ping_time + min_diff

rate_limited_no_bypass(info, t) ==
    t < info.last_ping_time + min_diff

\* lobby.rs 86: !info.is_first_ping_attempt && now < info.last_ping_time + min_diff
rate_limited(info, t) ==
    ~info.is_first_ping_attempt /\ t < info.last_ping_time + min_diff

\* ------------------------------------------------------- admission checks
slot_never_occupied == FALSE

\* lobby.rs 97: app_state.participant.is_some()
slot_occupied == participant # None

checks_slot_before_rate(s, t) ==
    IF s \notin DOMAIN lobby THEN "UnknownSessionId"
    ELSE IF slot_occupied THEN "AnotherContributionInProgress"
    ELSE IF rate_limited(lobby[s], t) THEN "RateLimited"
    ELSE "Admit"

checks_slot_before_lookup(s, t) ==
    IF slot_occupied THEN "AnotherContributionInProgress"
    ELSE IF s \notin DOMAIN lobby THEN "UnknownSessionId"
    ELSE IF rate_limited(lobby[s], t) THEN "RateLimited"
    ELSE "Admit"

\* lobby.rs 75-99: the three checks in the order the code makes them
try_contribute_checks(s, t) ==
    IF s \notin DOMAIN lobby THEN "UnknownSessionId"
    ELSE IF rate_limited(lobby[s], t) THEN "RateLimited"
    ELSE IF slot_occupied THEN "AnotherContributionInProgress"
    ELSE "Admit"

pings_logged_always(kind) == kind # "UnknownSessionId"

pings_logged_only_admit(kind) == kind = "Admit"

\* lobby.rs 86-91: the ping is logged for every attempt that got past the
\* rate limiter, whatever the slot check says afterwards
pings_logged(kind) == kind \in {"AnotherContributionInProgress", "Admit"}

log_ping_epoch(s, t) ==
    [lobby EXCEPT ![s].is_first_ping_attempt = FALSE, ![s].last_ping_time = 0]

\* lobby.rs 90-91: the ping is logged once the rate limiter passed
log_ping(s, t) ==
    [lobby EXCEPT ![s].is_first_ping_attempt = FALSE, ![s].last_ping_time = t]

\* ------------------------------------------------ state helpers (lib.rs)
\* A fresh SessionInfo: not yet pinged, timestamp of its creation.
new_session_info(s, t) ==
    [is_first_ping_attempt |-> TRUE, last_ping_time |-> t,
     uid |-> unique_identifier(s)]

set_current_contributor_keeps_lobby(lob, s) ==
    [lobby |-> lob, participant |-> <<s, lob[s].uid>>]

\* AppState::set_current_contributor: "This user now reserves this spot. This
\* also removes them from the lobby"
set_current_contributor(lob, s) ==
    [lobby |-> [x \in DOMAIN lob \ {s} |-> lob[x]],
     participant |-> <<s, lob[s].uid>>]

\* AppState::clear_current_contributor
clear_current_contributor == None

IdleCall == [pc |-> "idle", uid |-> 0]
NoGuard == [pc |-> "none", uid |-> 0, wake_at |-> 0, expire_ok |-> TRUE]
NoContribution == 0 - 1
NoCall == [session_id |-> 0, kind |-> "none", first |-> FALSE,
           insert_ok |-> TRUE, contribution |-> NoContribution]
NoStatus == [lobby_size |-> 0 - 1, num_contributions |-> 0 - 1]

\* ------------------------------------------------------------------- Init
\* SharedState::default(): empty lobby, empty slot, nothing contributed; the
\* process starts when the clock reads t.
StartState(t) ==
    /\ lobby = << >>
    /\ participant = None
    /\ num_contributions = 0
    /\ write_lock = 0
    /\ call = [s \in Sessions |-> IdleCall]
    /\ guard = [s \in Sessions |-> NoGuard]
    /\ now = t
    /\ issued = {}
    /\ insert_calls = [u \in Uids |-> 0]
    /\ expire_calls = [u \in Uids |-> 0]
    /\ last_call = NoCall
    /\ completed = {}
    /\ evictions = {}
    /\ transcript = 0
    /\ status_pc = "idle"
    /\ last_status = NoStatus

InitState == StartState(0)

Init ==
    /\ InitState
    /\ advance = 1
    /\ frequency = MaxFrequency
    /\ tolerance \in 0..(frequency - 1)
    /\ storage_faulty = FALSE

ScenarioInit ==
    /\ InitState
    /\ advance = ScenarioAdvance
    /\ frequency = ScenarioFrequency
    /\ tolerance = ScenarioTolerance
    /\ storage_faulty = FALSE

config == <<advance, frequency, tolerance, storage_faulty>>

\* the state of the status requests (info.rs)
info == <<status_pc, last_status>>

\* ---------------------------------------------------------- environment
\* The identity layer registers a new session: under the write lock,
\* lobby.insert(session_id, info) (as the test does at lobby.rs 184-193).
Register(s) ==
    /\ s \notin issued
    /\ write_lock = 0
    /\ issued' = issued \cup {s}
    /\ lobby' = [x \in DOMAIN lobby \cup {s} |->
                    IF x = s THEN new_session_info(s, now) ELSE lobby[x]]
    /\ UNCHANGED <<participant, num_contributions, write_lock, call, guard, now,
                   config, transcript, info, insert_calls, expire_calls, last_call, completed,
                   evictions>>

\* The clock advances, by one step up to the horizon.  After the horizon it
\* advances once more, by the compute deadline, when no request is in flight,
\* so that every deadline task can wake; no request is made after that.
Tick ==
    /\ \/ /\ now < Horizon
          /\ now' = now + advance
       \/ /\ now = Horizon
          /\ \A s \in Sessions : call[s].pc = "idle"
          /\ now' = Horizon + COMPUTE_DEADLINE
    /\ UNCHANGED <<lobby, participant, num_contributions, write_lock, call, guard,
                   config, transcript, info, issued, insert_calls, expire_calls, last_call,
                   completed, evictions>>

\* The completion path (the /contribute endpoint): under the write lock it
\* clears the slot of the participant that contributed and counts the
\* contribution.
Complete ==
    /\ write_lock = 0
    /\ participant # None
    /\ participant' = None
    /\ num_contributions' = num_contributions + 1
    /\ completed' = completed \cup {participant[1]}
    /\ transcript' = transcript + 1
    /\ UNCHANGED <<lobby, write_lock, call, guard, now, config, info, issued,
                   insert_calls, expire_calls, last_call, evictions>>

\* --------------------------------------------------------- try_contribute
\* lobby.rs 64-71: the request arrives and awaits store.write()
tc_call(s) ==
    /\ call[s].pc = "idle"
    /\ now <= Horizon
    /\ call' = [call EXCEPT ![s].pc = "write"]
    /\ UNCHANGED <<lobby, participant, num_contributions, write_lock, guard, now,
                   config, transcript, info, issued, insert_calls, expire_calls, last_call,
                   completed, evictions>>

\* lobby.rs 71-103: the write lock is taken and the three checks run.  An
\* error returns and drops the lock; otherwise the call goes on, still
\* holding the lock, to await storage.insert_contributor.
tc_enter(s) ==
    /\ call[s].pc = "write"
    /\ write_lock = 0
    /\ LET kind == try_contribute_checks(s, now)
           known == s \in DOMAIN lobby
       IN /\ last_call' =
                [session_id |-> s,
                 kind |-> kind,
                 first |-> IF known THEN lobby[s].is_first_ping_attempt ELSE FALSE,
                 insert_ok |-> TRUE,
                 contribution |-> NoContribution]
          /\ lobby' = IF pings_logged(kind) THEN log_ping(s, now) ELSE lobby
          /\ IF kind = "Admit"
             THEN /\ write_lock' = s
                  /\ call' = [call EXCEPT ![s] = [pc |-> "insert", uid |-> lobby[s].uid]]
             ELSE /\ write_lock' = 0
                  /\ call' = [call EXCEPT ![s] = IdleCall]
    /\ UNCHANGED <<participant, num_contributions, guard, now, config, transcript, info, issued,
                   insert_calls, expire_calls, completed, evictions>>

\* The persistence layer answers a call: stored, or (when it can fail) not.
storage_outcomes == IF storage_faulty THEN BOOLEAN ELSE {TRUE}

tc_insert_rolls_back(s) ==
    /\ call[s].pc = "insert"
    /\ \E ok \in storage_outcomes :
          /\ last_call' = [last_call EXCEPT !.insert_ok = ok]
          /\ insert_calls' = [insert_calls EXCEPT ![call[s].uid] = @ + 1]
          /\ IF ok
             THEN /\ LET st == set_current_contributor(lobby, s)
                     IN /\ lobby' = st.lobby
                        /\ participant' = st.participant
                  /\ guard' = [guard EXCEPT ![s] =
                                  [pc |-> "sleep", uid |-> call[s].uid,
                                   wake_at |-> now + COMPUTE_DEADLINE,
                                   expire_ok |-> TRUE]]
                  /\ call' = [call EXCEPT ![s].pc = "transcript"]
                  /\ UNCHANGED write_lock
             ELSE /\ call' = [call EXCEPT ![s] = IdleCall]
                  /\ write_lock' = 0
                  /\ UNCHANGED <<lobby, participant, guard>>
    /\ UNCHANGED <<num_contributions, now, config, transcript, info, issued,
                   expire_calls, completed, evictions>>

\* lobby.rs 103-114: insert_contributor returns (stored or not; the result is
\* not looked at), the session takes the slot, the deadline task is spawned,
\* and the call awaits transcript.read().
tc_insert(s) ==
    /\ call[s].pc = "insert"
    /\ \E ok \in storage_outcomes :
          last_call' = [last_call EXCEPT !.insert_ok = ok]
    /\ insert_calls' = [insert_calls EXCEPT ![call[s].uid] = @ + 1]
    /\ LET st == set_current_contributor(lobby, s)
       IN /\ lobby' = st.lobby
          /\ participant' = st.participant
    /\ guard' = [guard EXCEPT ![s] = [pc |-> "sleep", uid |-> call[s].uid,
                                      wake_at |-> now + COMPUTE_DEADLINE,
                                      expire_ok |-> TRUE]]
    /\ call' = [call EXCEPT ![s].pc = "transcript"]
    /\ UNCHANGED <<num_contributions, write_lock, now, config, transcript, info,
                   issued, expire_calls, completed, evictions>>

\* Transcript::get_contribution of the shared transcript
get_contribution == transcript

tc_return_keeps_lock(s) ==
    /\ call[s].pc = "transcript"
    /\ last_call' = [last_call EXCEPT !.kind = "Ok",
                                      !.contribution = get_contribution]
    /\ call' = [call EXCEPT ![s] = IdleCall]
    /\ UNCHANGED <<lobby, participant, num_contributions, write_lock, guard, now,
                   config, transcript, info, issued, insert_calls, expire_calls,
                   completed, evictions>>

\* lobby.rs 114-119: the contribution is read and returned; the write guard
\* is dropped at the end of the function.
tc_return(s) ==
    /\ call[s].pc = "transcript"
    /\ last_call' = [last_call EXCEPT !.kind = "Ok",
                                      !.contribution = get_contribution]
    /\ write_lock' = 0
    /\ call' = [call EXCEPT ![s] = IdleCall]
    /\ UNCHANGED <<lobby, participant, num_contributions, guard, now, config, transcript, info,
                   issued, insert_calls, expire_calls, completed, evictions>>

\* ------------------------------------------ remove_participant_on_deadline
guard_finds_any_session(s) == participant # None

\* lobby.rs 133-142: Some((participant_session_id, _)) with
\* participant_session_id == session_id
guard_finds_own_session(s) == participant # None /\ participant[1] = s

\* lobby.rs 129: the sleep of COMPUTE_DEADLINE seconds is over, and its timer
\* is gone with it
guard_wake(s) ==
    /\ guard[s].pc = "sleep"
    /\ now >= guard[s].wake_at
    /\ guard' = [guard EXCEPT ![s].pc = "check", ![s].wake_at = 0]
    /\ UNCHANGED <<lobby, participant, num_contributions, write_lock, call, now,
                   config, transcript, info, issued, insert_calls, expire_calls, last_call,
                   completed, evictions>>

\* lobby.rs 131-143: under state.read() the occupant is compared with the
\* task's session; the read guard is dropped at the end of the block.
guard_check(s) ==
    /\ guard[s].pc = "check"
    /\ write_lock = 0
    /\ guard' = [guard EXCEPT ![s].pc =
                    IF guard_finds_own_session(s) THEN "expire" ELSE "done"]
    /\ UNCHANGED <<lobby, participant, num_contributions, write_lock, call, now,
                   config, transcript, info, issued, insert_calls, expire_calls, last_call,
                   completed, evictions>>

\* lobby.rs 150: storage.expire_contribution(&uid).await, no lock held
guard_expire(s) ==
    /\ guard[s].pc = "expire"
    /\ \E ok \in storage_outcomes :
          guard' = [guard EXCEPT ![s].pc = "clear", ![s].expire_ok = ok]
    /\ expire_calls' = [expire_calls EXCEPT ![guard[s].uid] = @ + 1]
    /\ UNCHANGED <<lobby, participant, num_contributions, write_lock, call, now,
                   config, transcript, info, issued, insert_calls, last_call, completed, evictions>>

\* lobby.rs 151: state.write().await.clear_current_contributor()
guard_clear(s) ==
    /\ guard[s].pc = "clear"
    /\ write_lock = 0
    /\ participant' = clear_current_contributor
    /\ evictions' = evictions \cup
            {<<s, IF participant = None THEN 0 ELSE participant[1]>>}
    /\ guard' = [guard EXCEPT ![s].pc = "done"]
    /\ UNCHANGED <<lobby, num_contributions, write_lock, call, now, config, transcript, info,
                   issued, insert_calls, expire_calls, last_call, completed>>

\* ------------------------------------------------------------------- Next
Next ==
    \/ \E s \in Sessions : Register(s)
    \/ Tick
    \/ Complete
    \/ \E s \in Sessions : tc_call(s)
    \/ \E s \in Sessions : tc_enter(s)
    \/ \E s \in Sessions : tc_insert(s)
    \/ \E s \in Sessions : tc_return(s)
    \/ \E s \in Sessions : guard_wake(s)
    \/ \E s \in Sessions : guard_check(s)
    \/ \E s \in Sessions : guard_expire(s)
    \/ \E s \in Sessions : guard_clear(s)

Spec == Init /\ [][Next]_vars

ScenarioSpec == ScenarioInit /\ [][Next]_vars

\* ----------------------------------------------------------------- status
\* everything but the state of the status requests
core == <<lobby, participant, num_contributions, write_lock, call, guard, now,
          config, issued, insert_calls, expire_calls, last_call, completed,
          evictions, transcript>>

\* info.rs 29-30: a status request arrives and awaits store.read()
status_await ==
    /\ status_pc = "idle"
    /\ status_pc' = "read"
    /\ UNCHANGED <<core, last_status>>

status_response_counts_slot ==
    [lobby_size |-> Cardinality(DOMAIN lobby)
                        + (IF participant = None THEN 0 ELSE 1),
     num_contributions |-> num_contributions]

\* info.rs 32-38: the two fields of the StatusResponse
status_response ==
    [lobby_size |-> Cardinality(DOMAIN lobby),
     num_contributions |-> num_contributions]

\* info.rs 30-39: under the read guard both values are read and returned
status ==
    /\ status_pc = "read"
    /\ write_lock = 0
    /\ last_status' = status_response
    /\ status_pc' = "idle"
    /\ UNCHANGED core

\* lobby.rs and info.rs together
NextInfo ==
    \/ Next
    \/ status_await
    \/ status

\* The process starts late on the model's clock: one step before the horizon.
LateStart == Horizon - advance

LateInit ==
    /\ advance = 1
    /\ StartState(LateStart)
    /\ frequency = MaxFrequency
    /\ tolerance = 0
    /\ storage_faulty = FALSE

InfoSpec == LateInit /\ [][NextInfo]_vars

\* The persistence layer can fail any call.
FaultInit ==
    /\ advance = 1
    /\ StartState(LateStart)
    /\ frequency = MaxFrequency
    /\ tolerance = 0
    /\ storage_faulty = TRUE

FaultSpec == FaultInit /\ [][Next]_vars

\* Time does not wait for requests: the clock passes the horizon by the
\* compute deadline also while requests are in flight, and goes on for as
\* long as a deadline task sleeps.
Elapse ==
    /\ \/ /\ now = Horizon
          /\ \E s \in Sessions : call[s].pc # "idle"
       \/ /\ now > Horizon
          /\ \E s \in Sessions : guard[s].pc = "sleep" /\ guard[s].wake_at > now
    /\ now' = now + COMPUTE_DEADLINE
    /\ UNCHANGED <<lobby, participant, num_contributions, write_lock, call, guard,
                   config, transcript, info, issued, insert_calls, expire_calls,
                   last_call, completed, evictions>>

\* lobby.rs and info.rs with time that passes on its own
NextLive ==
    \/ NextInfo
    \/ Elapse

\* Scheduling: the runtime runs every task that can run, external calls
\* return, and a task waiting for tokio's RwLock (a fair, queued lock) gets
\* it once it stays free; time passes, whether or not requests are in
\* flight.  Requests stop after the horizon, so the lock stays free in the
\* end and weak fairness, which the fair lock more than provides, is enough
\* for the steps that take it.
Fairness ==
    /\ \A s \in Sessions :
          /\ WF_vars(tc_enter(s))
          /\ WF_vars(tc_insert(s))
          /\ WF_vars(tc_return(s))
          /\ WF_vars(guard_wake(s))
          /\ WF_vars(guard_check(s))
          /\ WF_vars(guard_expire(s))
          /\ WF_vars(guard_clear(s))
    /\ WF_vars(status)
    /\ WF_vars(Tick \/ Elapse)

LiveSpec == LateInit /\ [][NextLive]_vars /\ Fairness

\* ---------------------------------------------------------------- claims
\* Sessions that were admitted (their deadline task was spawned).
Admitted == {s \in Sessions : guard[s].pc # "none"}

\* Sessions taken out of the slot by a deadline task.
Evicted == {e[2] : e \in evictions} \ {0}

\* A step in which the try_contribute of s takes the lock and runs its checks.
Answered(s) == call[s].pc = "write" /\ call'[s].pc # "write"

\* now - last_ping_time < frequency - tolerance, for a session of the lobby
TooEarly(s) == now - lobby[s].last_ping_time < frequency - tolerance

\* C1: try_contribute never succeeds while the slot is occupied.  The sessions
\* whose admission is still open (admitted, neither completed nor evicted) are
\* exactly the occupant of the slot, so at most one admission is open at a
\* time and every earlier one was cleared before the next succeeded.
C1_SlotExclusive ==
    (Admitted \ (completed \cup Evicted))
        = (IF participant = None THEN {} ELSE {participant[1]})

\* C1 witness: a second admission, made after the first occupant was cleared.
C1_Witness ==
    /\ participant # None
    /\ \E s \in Admitted : s # participant[1]

\* C2 (as claimed): whenever a deadline task clears the slot, the occupant it
\* removes is not a session other than the one the task was spawned for.
C2_GuardEvictsOnlyOwnSession ==
    \A e \in evictions : e[2] \notin (Sessions \ {e[1]})

\* C3 (as claimed): no admission is both completed and recorded as expired.
C3_NoCompletedAndExpired ==
    \A s \in Sessions :
        s \in completed => expire_calls[unique_identifier(s)] = 0

\* C4 (as claimed): once the deadline task of an admission that was never
\* completed has run, that task has cleared the slot of its own session and
\* the expiry of the participant was recorded exactly once.
C4_AbandonedIsExpiredOnce ==
    \A s \in Sessions :
        (guard[s].pc = "done" /\ s \notin completed)
            => /\ <<s, s>> \in evictions
               /\ expire_calls[unique_identifier(s)] = 1

\* C5: precedence UnknownSessionId > RateLimited > AnotherContributionInProgress.
\* A session absent from the lobby is answered UnknownSessionId and a known,
\* rate-limited one RateLimited, whatever the slot holds;
\* AnotherContributionInProgress goes only to a known session that passed
\* the rate limiter and found the slot occupied.
C5_Precedence ==
    [][\A s \in Sessions : Answered(s) =>
        LET known == s \in DOMAIN lobby
            limited == known /\ ~lobby[s].is_first_ping_attempt /\ TooEarly(s)
        IN /\ ~known => last_call'.kind = "UnknownSessionId"
           /\ limited => last_call'.kind = "RateLimited"
           /\ last_call'.kind = "AnotherContributionInProgress"
                 => known /\ ~limited /\ participant # None]_vars

\* C5 witness: a known session was answered RateLimited while the slot is held.
C5_Witness ==
    /\ last_call.kind = "RateLimited"
    /\ last_call.session_id \in DOMAIN lobby
    /\ participant # None

\* C6: the first attempt of a lobby session is never answered RateLimited.
C6_FirstAttemptNeverRateLimited ==
    last_call.first => last_call.kind # "RateLimited"

\* C6 witness: a first attempt made at the very instant of registration (no
\* time elapsed since last_ping_time) was let through to the slot check.
C6_Witness ==
    /\ last_call.first
    /\ last_call.kind = "AnotherContributionInProgress"
    /\ now = 0

\* C7: a non-first attempt of a lobby session is answered RateLimited iff
\* now - last_ping_time < frequency - tolerance.
C7_RateLimitedIff ==
    [][\A s \in Sessions :
        (Answered(s) /\ s \in DOMAIN lobby /\ ~lobby[s].is_first_ping_attempt)
            => (last_call'.kind = "RateLimited" <=> TooEarly(s))]_vars

\* C7 witness: a non-first attempt that passed the rate limiter.
C7_Witness ==
    /\ ~last_call.first
    /\ last_call.session_id \in DOMAIN lobby
    /\ last_call.kind = "AnotherContributionInProgress"

\* C8 (as claimed): with frequency 20 and tolerance 10, a non-first attempt
\* made exactly 10 s after the last allowed one is answered RateLimited.
C8_RateLimitedAtMinInterval ==
    [][\A s \in Sessions :
        (/\ Answered(s)
         /\ s \in DOMAIN lobby
         /\ ~lobby[s].is_first_ping_attempt
         /\ now - lobby[s].last_ping_time = ScenarioFrequency - ScenarioTolerance)
            => last_call'.kind = "RateLimited"]_vars

\* C8 (amended): with frequency 20 and tolerance 10, a non-first attempt made
\* 5 s after the last allowed one is answered RateLimited, and one made
\* exactly 10 s after it is not: it passes the rate limiter.
C8_PassesAtMinInterval ==
    [][\A s \in Sessions :
        (Answered(s) /\ s \in DOMAIN lobby /\ ~lobby[s].is_first_ping_attempt)
            => /\ now - lobby[s].last_ping_time = ScenarioAdvance
                    => last_call'.kind = "RateLimited"
               /\ now - lobby[s].last_ping_time
                        = ScenarioFrequency - ScenarioTolerance
                    => last_call'.kind # "RateLimited"]_vars

\* C8 witness: at t = 10 a non-first attempt was admitted (with steps of 5 s
\* and a minimum interval of 10 s, its last allowed attempt was at t = 0).
C8_Witness ==
    /\ now = ScenarioFrequency - ScenarioTolerance
    /\ ~last_call.first
    /\ last_call.kind = "Ok"

\* C9: no session is in the lobby and in the slot at once, and a session that
\* was completed or evicted is not in the slot.
C9_LobbySlotDisjoint ==
    participant # None
        => /\ participant[1] \notin DOMAIN lobby
           /\ participant[1] \notin (completed \cup Evicted)

\* C9 witness: a session was admitted out of the lobby into the slot after an
\* earlier occupant was completed or evicted.
C9_Witness ==
    /\ participant # None
    /\ participant[1] \in issued
    /\ (completed \cup Evicted) # {}

\* C10: try_contribute of a session that is not in the lobby answers
\* UnknownSessionId, returns at once, and changes neither the lobby, the slot,
\* num_contributions, the deadline tasks nor the persistence calls.
C10_UnknownSessionIsNoOp ==
    [][\A s \in Sessions :
        (Answered(s) /\ s \notin DOMAIN lobby)
            => /\ last_call'.kind = "UnknownSessionId"
               /\ call'[s].pc = "idle"
               /\ write_lock' = 0
               /\ UNCHANGED <<lobby, participant, num_contributions, guard,
                              insert_calls, expire_calls>>]_vars

\* C10 witness: the session that holds the slot called again and was
\* answered UnknownSessionId.
C10_Witness ==
    /\ participant # None
    /\ last_call.session_id = participant[1]
    /\ last_call.kind = "UnknownSessionId"

\* C11 (as claimed): no task holds the write lock of the state while it
\* awaits an external call.  A try_contribute that awaits insert_contributor
\* or the transcript (lock and get_contribution) does not hold it.  (The
\* deadline task takes the write lock only within guard_clear, after
\* expire_contribution has returned.)
C11_NoLockAcrossExternalCalls ==
    \A s \in Sessions :
        call[s].pc \in {"insert", "transcript"} => write_lock # s

\* C15: a try_contribute answered RateLimited changes nothing: the session's
\* last_ping_time and is_first_ping_attempt, the lobby, the slot,
\* num_contributions, the deadline tasks and the persistence calls stay as
\* they were.
C15_RateLimitedIsPureCheck ==
    [][\A s \in Sessions :
        (Answered(s) /\ last_call'.kind = "RateLimited")
            => /\ call'[s].pc = "idle"
               /\ UNCHANGED <<lobby, participant, num_contributions, guard,
                              insert_calls, expire_calls>>]_vars

\* C15 witness: a session polled after its last allowed attempt, was answered
\* RateLimited, and still carries the earlier timestamp.
C15_Witness ==
    /\ last_call.kind = "RateLimited"
    /\ last_call.session_id \in DOMAIN lobby
    /\ lobby[last_call.session_id].last_ping_time < now

\* C16: a try_contribute answered AnotherContributionInProgress is a check-in:
\* the session stays in the lobby with is_first_ping_attempt = FALSE and
\* last_ping_time = now; the other sessions and the slot are unchanged.
C16_SlotBusyCountsAsCheckIn ==
    [][\A s \in Sessions :
        (Answered(s) /\ last_call'.kind = "AnotherContributionInProgress")
            => /\ DOMAIN lobby' = DOMAIN lobby
               /\ s \in DOMAIN lobby'
               /\ lobby'[s].is_first_ping_attempt = FALSE
               /\ lobby'[s].last_ping_time = now
               /\ lobby'[s].uid = lobby[s].uid
               /\ \A x \in DOMAIN lobby \ {s} : lobby'[x] = lobby[x]
               /\ participant' = participant
               /\ participant # None]_vars

\* C16 witness: a first attempt, made after the registration instant, found
\* the slot occupied and moved the session's timestamp.
C16_Witness ==
    /\ last_call.kind = "AnotherContributionInProgress"
    /\ last_call.first
    /\ last_call.session_id \in DOMAIN lobby
    /\ lobby[last_call.session_id].last_ping_time > 0

\* C17: a deadline task that wakes and finds the slot empty or held by
\* another session ends there: it records no expiry, changes neither the
\* lobby, the slot nor num_contributions, and never acts again.
C17_StaleGuardIsNoOp ==
    [][\A s \in Sessions :
        /\ (/\ guard[s].pc = "check"
            /\ guard'[s].pc # "check"
            /\ (participant = None \/ participant[1] # s))
              => /\ guard'[s].pc = "done"
                 /\ UNCHANGED <<lobby, participant, num_contributions,
                                expire_calls, evictions>>
        /\ guard[s].pc = "done"
              => /\ guard'[s].pc = "done"
                 /\ expire_calls'[unique_identifier(s)]
                        = expire_calls[unique_identifier(s)]]_vars

\* C17 witness: the task of a completed session ended without an expiry or an
\* eviction while a later session holds the slot.
C17_Witness ==
    \E s \in completed :
        /\ guard[s].pc = "done"
        /\ expire_calls[unique_identifier(s)] = 0
        /\ \A e \in evictions : e[1] # s
        /\ participant # None

\* C19: the last_ping_time of a session that stays in the lobby never
\* decreases.
C19_LastPingTimeMonotonic ==
    [][\A s \in DOMAIN lobby \cap DOMAIN lobby' :
          lobby'[s].last_ping_time >= lobby[s].last_ping_time]_vars

\* C19 witness: a lobby session whose timestamp moved forward to a later
\* attempt.
C19_Witness ==
    \E s \in DOMAIN lobby :
        /\ ~lobby[s].is_first_ping_attempt
        /\ lobby[s].last_ping_time > 0

\* C12: no deadlock and no starvation.  Every try_contribute returns, every
\* status request returns, and every deadline task terminates.
C12_EveryTaskTerminates ==
    /\ \A s \in Sessions : (call[s].pc # "idle") ~> (call[s].pc = "idle")
    /\ (status_pc = "read") ~> (status_pc = "idle")
    /\ \A s \in Sessions : (guard[s].pc # "none") ~> (guard[s].pc = "done")

\* C12 witness: a try_contribute and a status request both wait for the lock
\* that an admitting try_contribute holds, while a deadline task is awake.
C12_Witness ==
    /\ write_lock # 0
    /\ status_pc = "read"
    /\ \E s \in Sessions : call[s].pc = "write"
    /\ \E s \in Sessions : guard[s].pc \in {"check", "expire", "clear"}

\* C13: status answers with the lobby size and num_contributions of the one
\* state in which it holds the read lock, and changes nothing of the state.
C13_StatusIsSnapshot ==
    [][(status_pc = "read" /\ status_pc' = "idle")
        => /\ last_status'.lobby_size = Cardinality(DOMAIN lobby)
           /\ last_status'.num_contributions = num_contributions
           /\ UNCHANGED <<lobby, participant, num_contributions, write_lock,
                          call, guard, insert_calls, expire_calls,
                          transcript>>]_vars

\* C13 witness: a status answer taken while one session waited in the lobby,
\* another held the slot, and no contribution was counted yet.
C13_Witness ==
    /\ last_status.lobby_size = 1
    /\ last_status.num_contributions = 0
    /\ participant # None
    /\ Cardinality(DOMAIN lobby) = 1

\* C14: a try_contribute of a lobby session that passes the rate limiter and
\* finds the slot empty succeeds: it goes on to take the slot as
\* (session_id, unique_identifier), leaves the lobby, and returns the
\* transcript's current contribution.
C14_AdmissionSucceeds ==
    [][\A s \in Sessions :
        /\ (/\ Answered(s)
            /\ s \in DOMAIN lobby
            /\ (lobby[s].is_first_ping_attempt \/ ~TooEarly(s))
            /\ participant = None)
              => /\ last_call'.kind = "Admit"
                 /\ call'[s].pc = "insert"
        /\ (call[s].pc = "insert" /\ call'[s].pc # "insert")
              => /\ call'[s].pc = "transcript"
                 /\ participant' = <<s, unique_identifier(s)>>
                 /\ s \notin DOMAIN lobby'
        /\ (call[s].pc = "transcript" /\ call'[s].pc # "transcript")
              => /\ last_call'.session_id = s
                 /\ last_call'.kind = "Ok"
                 /\ last_call'.contribution = transcript
                 /\ participant' = <<s, unique_identifier(s)>>
                 /\ s \notin DOMAIN lobby']_vars

\* C14 witness: a non-first attempt was admitted and returned the transcript
\* as the previous contributor left it.
C14_Witness ==
    /\ last_call.kind = "Ok"
    /\ ~last_call.first
    /\ last_call.contribution = 1
    /\ participant = <<last_call.session_id,
                       unique_identifier(last_call.session_id)>>
    /\ last_call.session_id \notin DOMAIN lobby

\* C18: a failing persistence call changes no outcome.  Whatever
\* insert_contributor answers, the attempt takes the slot and returns Ok;
\* whatever expire_contribution answers, the evicting deadline task goes on
\* to clear the slot.
C18_PersistenceFailureChangesNothing ==
    [][\A s \in Sessions :
        /\ (call[s].pc = "insert" /\ call'[s].pc # "insert")
              => /\ call'[s].pc = "transcript"
                 /\ participant' = <<s, call[s].uid>>
        /\ (call[s].pc = "transcript" /\ call'[s].pc # "transcript")
              => /\ last_call'.kind = "Ok"
                 /\ participant' = <<s, call[s].uid>>
        /\ (guard[s].pc = "expire" /\ guard'[s].pc # "expire")
              => guard'[s].pc = "clear"
        /\ (guard[s].pc = "clear" /\ guard'[s].pc # "clear")
              => /\ guard'[s].pc = "done"
                 /\ participant' = None]_vars

\* C18 witness: insert_contributor failed for the session that holds the slot
\* and was answered Ok, and a deadline task whose expire_contribution failed
\* has cleared the slot before.
C18_Witness ==
    /\ last_call.kind = "Ok"
    /\ ~last_call.insert_ok
    /\ participant # None
    /\ participant[1] = last_call.session_id
    /\ \E s \in Sessions : guard[s].pc = "done" /\ ~guard[s].expire_ok

====
